---- MODULE Spec2Model ----
(***************************************************************************)
(* Model of the waste-bin-backend services: the burglary alert/image       *)
(* correlator, the energy audit with its alert de-duplication, and the     *)
(* health vitals analysis.  Time is counted in whole seconds.              *)
(***************************************************************************)
EXTENDS Integers, Sequences, FiniteSets, TLC

(***************************************************************************)
(* Program constants                                                       *)
(***************************************************************************)
CORRELATION_WINDOW_SECONDS == 5
LOOKBACK_SECONDS == 10

(***************************************************************************)
(* Bounds of the model                                                     *)
(***************************************************************************)
MaxAlerts == 2
MaxImages == 2
MaxTicks == 1
MaxReadings == 2
MaxVitals == 3
MaxPosts == 3
MaxAnalyses == 2
MaxAudits == 1
MaxEvents == 2
MaxCommands == 3

\* the timestamps a device sends: around images taken at 10 s and later,
\* both ends of the queried window, both sides of the 5 s distance, and
\* pairs at equal distance before and after
AlertTimes == {0, 5, 6, 9, 11, 14, 15, 16}

\* the instants at which requests arrive in the energy and health models:
\* they lie 1 s, 60 s, 599 s, 600 s, 659 s and 660 s apart
ClockInstants == {10, 11, 610, 670}

\* the instants of readings sent again: 1 s and 600 s after the first
RetryInstants == {11, 610}

Workers == {1, 2}
NULL == 0

VARIABLES
    now,        \* the server clock (datetime.utcnow()), in seconds
    alerts,     \* table burglary_alerts: row id = index in the sequence
    images,     \* table burglary_images: row id = index in the sequence
    upl,        \* per request worker: position inside upload_image
    tgSend,     \* the Telegram send the event loop is blocked in, if any
    tgConfig,   \* table burglary_telegram_config: its one row, or NoConfig
    imagesGone, \* the ids of the image rows that have been deleted
    ret,        \* the result of the last completed call
    eDevices,       \* table energy_devices: the registered device ids
    eConfigs,       \* table energy_sensor_config
    eReadingCount,  \* table energy_sensor_readings: number of rows
    eDayWatts,      \* per device: sum of both sensors' watts over today's rows
    eLogs,          \* table energy_audit_logs: row id = index in the sequence
    weather_cache,  \* the module-level weather cache of energy_api/routes.py
    ePost,          \* per request worker: a post_reading waiting at its await
    hDevices,       \* table health_devices: device id -> is_athlete
    hThresholds,    \* table health_thresholds: row id = index in the sequence
    hReadingCount,  \* table health_vital_readings: number of rows
    hAlerts,        \* table health_alerts: row id = index in the sequence
    hVitals,        \* table health_vital_readings: rows per device
    pending_state_commands,  \* the module-level dict of health routes.py
    bins,           \* table bins: bin id -> row, or NoBin
    binEvents       \* table bin_events, in the order of insertion

burglaryVars == <<alerts, images, upl, tgSend, tgConfig, imagesGone>>
energyVars == <<eDevices, eConfigs, eReadingCount, eDayWatts, eLogs,
                weather_cache, ePost>>
healthVars == <<hDevices, hThresholds, hReadingCount, hAlerts, hVitals,
               pending_state_commands>>
wasteVars == <<bins, binEvents>>
vars == <<now, ret, burglaryVars, energyVars, healthVars, wasteVars>>

\* no row in the Telegram configuration table
NoConfig == [chat_id |-> <<>>, bot_token |-> <<>>, active |-> FALSE,
             present |-> FALSE]

AlertIds == 1..Len(alerts)
\* the ids of the rows of the table
ImageIds == (1..Len(images)) \ imagesGone

\* no call has returned in the last step
NoRet == [op |-> "none", image |-> NULL, result |-> NULL]

Abs(x) == IF x < 0 THEN -x ELSE x

(***************************************************************************)
(* correlate_image_with_alert(image, db)                                   *)
(***************************************************************************)
time_window_start(ts) == ts - LOOKBACK_SECONDS
\* a window that only looks back from the image
time_window_end_lookback_only(ts) == ts
time_window_end(ts) == ts + CORRELATION_WINDOW_SECONDS

\* the query without its ~Alert.correlated filter
uncorrelated_alerts_any(ts) ==
    {a \in AlertIds : /\ alerts[a].timestamp >= time_window_start(ts)
                      /\ alerts[a].timestamp <= time_window_end(ts)}

\* the filter of the query: ~Alert.correlated and the two timestamp bounds
uncorrelated_alerts(ts) ==
    {a \in AlertIds : /\ ~alerts[a].correlated
                      /\ alerts[a].timestamp >= time_window_start(ts)
                      /\ alerts[a].timestamp <= time_window_end(ts)}

\* the rows in ascending order of timestamp
QueryOrders_asc(S) ==
    {q \in [1..Cardinality(S) -> S] :
        /\ \A i, j \in 1..Cardinality(S) : i # j => q[i] # q[j]
        /\ \A i, j \in 1..Cardinality(S) :
              i < j => alerts[q[i]].timestamp <= alerts[q[j]].timestamp}

\* order_by(Alert.timestamp.desc()): every row order the database may
\* return; rows with equal timestamps come in no specified order
QueryOrders(S) ==
    {q \in [1..Cardinality(S) -> S] :
        /\ \A i, j \in 1..Cardinality(S) : i # j => q[i] # q[j]
        /\ \A i, j \in 1..Cardinality(S) :
              i < j => alerts[q[i]].timestamp >= alerts[q[j]].timestamp}

\* a loop that keeps the last row inside the window length, not the closest
RECURSIVE closest_match_last(_, _, _, _, _)
closest_match_last(q, k, ts, min_time_diff, best_match) ==
    IF k > Len(q) THEN best_match
    ELSE LET time_diff == Abs(alerts[q[k]].timestamp - ts)
         IN  IF time_diff < min_time_diff
             THEN closest_match_last(q, k + 1, ts, min_time_diff, q[k])
             ELSE closest_match_last(q, k + 1, ts, min_time_diff, best_match)

\* the loop over the rows: keep the first row whose distance is strictly
\* smaller than the smallest seen so far, starting from the window length
RECURSIVE closest_match(_, _, _, _, _)
closest_match(q, k, ts, min_time_diff, best_match) ==
    IF k > Len(q) THEN best_match
    ELSE LET time_diff == Abs(alerts[q[k]].timestamp - ts)
         IN  IF time_diff < min_time_diff
             THEN closest_match(q, k + 1, ts, time_diff, q[k])
             ELSE closest_match(q, k + 1, ts, min_time_diff, best_match)

best_match_of(q, ts) ==
    closest_match(q, 1, ts, CORRELATION_WINDOW_SECONDS, NULL)

\* the service call with an image row of the database
Correlate(i) ==
    /\ i \in ImageIds
    /\ \E q \in QueryOrders(uncorrelated_alerts(images[i].timestamp)) :
          LET best == best_match_of(q, images[i].timestamp)
          IN  /\ IF best # NULL
                 THEN /\ alerts' = [alerts EXCEPT ![best].image_id = i,
                                                  ![best].correlated = TRUE]
                      /\ images' = [images EXCEPT ![i].alert_id = best]
                 ELSE UNCHANGED <<alerts, images>>
              /\ ret' = [op |-> "correlate", image |-> i, result |-> best]
    /\ UNCHANGED <<now, upl, tgSend, tgConfig, imagesGone,
                   energyVars, healthVars, wasteVars>>

(***************************************************************************)
(* receive_alert: the device supplies the timestamp                        *)
(***************************************************************************)
\* what the notification block of the handler meets: no active Telegram
\* configuration, a send that returns True, a send that returns False, or
\* an exception
NotifyOutcomes == {"none", "sent", "failed", "raised"}

\* (variant) a handler that answers with an error when the send fails
alert_status_gated(committed, notify) ==
    IF committed /\ notify \in {"none", "sent"} THEN 200 ELSE 500

\* the status of the response: 500 from the except block around the
\* commit, else the success response after the notification block
alert_status(committed, notify) == IF committed THEN 200 ELSE 500

ReceiveAlert(ts, committed, notify) ==
    /\ Len(alerts) < MaxAlerts
    /\ alerts' = IF committed
                 THEN Append(alerts, [timestamp |-> ts, correlated |-> FALSE,
                                      image_id |-> NULL])
                 ELSE alerts
    /\ ret' = [op |-> "alert", image |-> NULL, result |-> NULL,
               status |-> alert_status(committed, notify),
               alert_id |-> IF alert_status(committed, notify) = 200
                            THEN Len(alerts) + 1 ELSE NULL,
               timestamp |-> ts, committed |-> committed, notify |-> notify]
    /\ UNCHANGED <<now, images, upl, tgSend, tgConfig, imagesGone,
                   energyVars, healthVars, wasteVars>>

(***************************************************************************)
(* receive_alert with an active Telegram configuration: the handler is a   *)
(* coroutine of the one event loop and calls requests.post, which blocks   *)
(* the loop until the reply or the timeout                                 *)
(***************************************************************************)
NoSend == [pc |-> "idle", alert_id |-> NULL, timestamp |-> NULL,
           since |-> NULL]

\* the event loop is not inside a blocking call
LoopFree == tgSend.pc = "idle"

SendOutcomes == {"sent", "failed", "raised"}

\* lines 72-124: the alert is committed and the send is entered
AlertCommit(ts) ==
    /\ LoopFree
    /\ Len(alerts) < MaxAlerts
    /\ alerts' = Append(alerts, [timestamp |-> ts, correlated |-> FALSE,
                                 image_id |-> NULL])
    /\ tgSend' = [pc |-> "sending", alert_id |-> Len(alerts) + 1,
                  timestamp |-> ts, since |-> now]
    /\ ret' = NoRet
    /\ UNCHANGED <<now, images, upl, tgConfig, imagesGone,
                   energyVars, healthVars, wasteVars>>

\* lines 124-133: the send returns or raises, and the handler answers
SendReturns(notify) ==
    /\ tgSend.pc = "sending"
    /\ tgSend' = NoSend
    /\ ret' = [op |-> "alert", image |-> NULL, result |-> NULL,
               status |-> alert_status(TRUE, notify),
               alert_id |-> tgSend.alert_id,
               timestamp |-> tgSend.timestamp, committed |-> TRUE,
               notify |-> notify, waited |-> now - tgSend.since]
    /\ UNCHANGED <<now, alerts, images, upl, tgConfig, imagesGone,
                   energyVars, healthVars, wasteVars>>

(***************************************************************************)
(* Telegram configuration: save_telegram_config, get_telegram_config and   *)
(* TelegramConfig.to_dict; strings are sequences of characters             *)
(***************************************************************************)
Stars(n) == [k \in 1..n |-> "*"]

\* str.count of one character
CountOf(str, c) == Cardinality({k \in 1..Len(str) : str[k] = c})

\* str.strip() on blanks
RECURSIVE strip(_)
strip(str) ==
    IF Len(str) = 0 THEN str
    ELSE IF str[1] = " " THEN strip(SubSeq(str, 2, Len(str)))
    ELSE IF str[Len(str)] = " " THEN strip(SubSeq(str, 1, Len(str) - 1))
    ELSE str

\* to_dict(mask_token=True): the token with all but its last 6 characters
\* replaced by stars, or six stars for a token of at most 6 characters
mask_token(token) ==
    IF Len(token) = 0 THEN token
    ELSE IF Len(token) > 6
         THEN Stars(Len(token) - 6) \o SubSeq(token, Len(token) - 5, Len(token))
         ELSE Stars(6)

is_masked_token(str) ==
    IF Len(str) = 0 \/ Len(str) < 6 THEN FALSE
    ELSE str[1] = "*" /\ CountOf(str, "*") >= 6

\* GET /telegram/config
GetTelegramConfig ==
    /\ ret' = IF ~tgConfig.present
              THEN [op |-> "get_config", image |-> NULL, result |-> NULL,
                    configured |-> FALSE, bot_token |-> <<>>,
                    active |-> FALSE]
              ELSE [op |-> "get_config", image |-> NULL, result |-> NULL,
                    configured |-> TRUE,
                    bot_token |-> mask_token(tgConfig.bot_token),
                    active |-> tgConfig.active]
    /\ UNCHANGED <<now, burglaryVars, energyVars, healthVars, wasteVars>>

\* POST /telegram/config
SaveTelegramConfig(chat_id_in, bot_token_in, active) ==
    LET stripped == strip(bot_token_in)
        bot_token == IF is_masked_token(stripped) THEN <<>> ELSE stripped
        chat_id == strip(chat_id_in)
    IN  /\ IF tgConfig.present
           THEN /\ tgConfig' =
                     [chat_id |-> IF Len(chat_id) > 0 THEN chat_id
                                  ELSE tgConfig.chat_id,
                      bot_token |-> IF Len(bot_token) > 0 THEN bot_token
                                    ELSE tgConfig.bot_token,
                      active |-> active, present |-> TRUE]
                /\ ret' = [op |-> "save_config", image |-> NULL,
                           result |-> NULL, status |-> 200,
                           bot_token |-> bot_token_in]
           ELSE IF Len(bot_token) = 0 \/ Len(chat_id) = 0
           THEN /\ UNCHANGED tgConfig
                /\ ret' = [op |-> "save_config", image |-> NULL,
                           result |-> NULL, status |-> 400,
                           bot_token |-> bot_token_in]
           ELSE /\ tgConfig' = [chat_id |-> chat_id, bot_token |-> bot_token,
                                active |-> active, present |-> TRUE]
                /\ ret' = [op |-> "save_config", image |-> NULL,
                           result |-> NULL, status |-> 200,
                           bot_token |-> bot_token_in]
        /\ UNCHANGED <<now, alerts, images, upl, tgSend, imagesGone,
                       energyVars, healthVars, wasteVars>>

\* the tokens an operator types: 5, 6, 7, 8, 11, 12 and 15 characters, and a
\* token pasted with a trailing blank
Token5 ==
    <<"1", "2", ":", "A", "B">>
Token7 ==
    <<"1", "2", ":", "A", "B", "C", "D">>
Token11 ==
    <<"1", "2", "3", "4", ":", "A", "B", "C", "D", "E", "F">>
Token12 ==
    <<"1", "2", "3", "4", "5", ":", "A", "B", "C", "D", "E", "F">>
Token13sp ==
    <<"1", "2", "3", "4", "5", "6", ":", "A", "B", "C", "D", "E", "F", " ">>
Token6 ==
    <<"1", ":", "A", "B", "C", "D">>
Token15 ==
    <<"1", "2", "3", "4", "5", "6", "7", "8", "9", ":", "A", "B", "C", "D", "E">>
Token8 ==
    <<"1", "2", "3", ":", "A", "B", "C", "D">>
TokenInputs ==
    {Token5, Token6, Token7, Token8, Token11, Token12, Token13sp, Token15}
ChatInputs == {<<>>, <<"4", "2">>, <<"-", "7", " ">>}

(***************************************************************************)
(* upload_image: the handler awaits the request body, and then runs to     *)
(* its end without another await                                           *)
(***************************************************************************)
UploadBegin(w) ==
    /\ upl[w] = "idle"
    /\ Len(images) + Cardinality({v \in Workers : upl[v] = "read"}) < MaxImages
    /\ upl' = [upl EXCEPT ![w] = "read"]
    /\ ret' = NoRet
    /\ UNCHANGED <<now, alerts, images, tgSend, tgConfig, imagesGone,
                   energyVars, healthVars, wasteVars>>

\* The image row is committed, then correlate_image_with_alert(db, image)
\* is called with its two arguments exchanged: the function reads
\* .timestamp of the session, which raises; the handler rolls back (the
\* image row is already committed) and answers 500.
UploadFinish(w, stored) ==
    /\ upl[w] = "read"
    /\ upl' = [upl EXCEPT ![w] = "idle"]
    /\ IF stored
       THEN /\ images' = Append(images, [timestamp |-> now, alert_id |-> NULL])
            /\ ret' = [op |-> "upload", image |-> Len(images) + 1,
                       result |-> NULL, status |-> 500]
       ELSE /\ UNCHANGED images
            /\ ret' = [op |-> "upload", image |-> NULL, result |-> NULL,
                       status |-> 500]
    /\ UNCHANGED <<now, alerts, tgSend, tgConfig, imagesGone,
                   energyVars, healthVars, wasteVars>>

(***************************************************************************)
(* cleanup_old_images, run by cleanup_task.cleanup_old_images              *)
(***************************************************************************)
RETENTION_SECONDS == 86400      \* IMAGE_RETENTION_HOURS = 24

\* query(Image).filter(Image.timestamp < cutoff_time)
old_images(t) ==
    {i \in ImageIds : images[i].timestamp < t - RETENTION_SECONDS}

\* (variant) a database that does not check the foreign key
fk_violation_unchecked(marked) == FALSE

\* burglary_alerts.image_id is a foreign key to burglary_images.id: the
\* DELETE of an image row that an alert refers to is refused
fk_violation(marked) ==
    \E a \in AlertIds : alerts[a].image_id \in marked

\* cloud is the set of old images that delete_image removes from
\* Cloudinary; only these are marked for deletion in the session
CleanupOldImages(cloud) ==
    /\ cloud \subseteq old_images(now)
    /\ IF cloud = {}
       THEN /\ UNCHANGED imagesGone
            /\ ret' = [op |-> "cleanup", image |-> NULL, result |-> NULL,
                       deleted |-> 0, status |-> "ok"]
       ELSE IF fk_violation(cloud)
       THEN \* the commit raises, and cleanup_task rolls the session back
            /\ UNCHANGED imagesGone
            /\ ret' = [op |-> "cleanup", image |-> NULL, result |-> NULL,
                       deleted |-> 0, status |-> "error"]
       ELSE /\ imagesGone' = imagesGone \cup cloud
            /\ ret' = [op |-> "cleanup", image |-> NULL, result |-> NULL,
                       deleted |-> Cardinality(cloud), status |-> "ok"]
    /\ UNCHANGED <<now, alerts, images, upl, tgSend, tgConfig,
                   energyVars, healthVars, wasteVars>>

Tick ==
    /\ now < LOOKBACK_SECONDS + MaxTicks
    /\ now' = now + 1
    /\ ret' = NoRet
    /\ UNCHANGED <<burglaryVars, energyVars, healthVars, wasteVars>>

(***************************************************************************)
(* Energy audit: run_energy_audit and post_reading                         *)
(*   amps are counted in mA, temperatures in whole degrees                 *)
(***************************************************************************)
NONE == -999                    \* Python None in a numeric column
DEDUP_WINDOW_SECONDS == 600     \* timedelta(minutes=10)
WEATHER_CACHE_SECONDS == 900
DAILY_LIMIT_WATT_SAMPLES == 14400000  \* 20 kWh * 3600 * 1000 / 5

EDeviceIds == {"d1", "d2"}
SensorNumbers == <<1, 2>>

Truthy(x) == x # NONE /\ x # 0

\* labels are sequences of characters
LowerChar(c) ==
    CASE c = "A" -> "a" [] c = "C" -> "c" [] c = "L" -> "l"
      [] c = "H" -> "h" [] c = "B" -> "b" [] OTHER -> c
lower(label) == [k \in 1..Len(label) |-> LowerChar(label[k])]

\* Python's  key in label  on strings
Contains(label, key) ==
    \E k \in 1..(Len(label) - Len(key) + 1) :
        SubSeq(label, k, k + Len(key) - 1) = key

K_light == <<"l", "i", "g", "h", "t">>
K_ac == <<"a", "c">>
K_cooling == <<"c", "o", "o", "l", "i", "n", "g">>
K_air_con == <<"a", "i", "r", " ", "c", "o", "n">>
K_heater == <<"h", "e", "a", "t", "e", "r">>
K_heating == <<"h", "e", "a", "t", "i", "n", "g">>

\* f"sensor {sensor_num}"
DefaultLabel(n) ==
    <<"s", "e", "n", "s", "o", "r", " ">> \o <<IF n = 1 THEN "1" ELSE "2">>

\* config_map.get(sensor_num) for the device; {} when there is no row
ConfigOf(device_id, n) ==
    {c \in eConfigs : c.device_id = device_id /\ c.sensor_number = n}

LabelOf(device_id, n) ==
    IF ConfigOf(device_id, n) = {} THEN DefaultLabel(n)
    ELSE lower((CHOOSE c \in ConfigOf(device_id, n) : TRUE).custom_label)

CategoryOf(device_id, n) ==
    IF ConfigOf(device_id, n) = {} THEN "Unknown"
    ELSE (CHOOSE c \in ConfigOf(device_id, n) : TRUE).appliance_category

current_hour(t) == (t \div 3600) % 24

Candidate(n, type, severity) ==
    <<[sensor |-> n, type |-> type, severity |-> severity]>>

\* Rule 5: daily usage
DailyRule(dayWatts) ==
    IF dayWatts > DAILY_LIMIT_WATT_SAMPLES
    THEN Candidate(0, "daily_limit_exceeded", "warning") ELSE <<>>

\* (variant) a brownout check that includes 200 V
VoltageRule_inclusive(n, voltage) ==
    IF voltage <= 200 THEN Candidate(n, "voltage_brownout", "danger")
    ELSE IF voltage > 250 THEN Candidate(n, "voltage_surge", "danger")
    ELSE <<>>

\* Rule 6: voltage instability
VoltageRule(n, voltage) ==
    IF voltage < 200 THEN Candidate(n, "voltage_brownout", "danger")
    ELSE IF voltage > 250 THEN Candidate(n, "voltage_surge", "danger")
    ELSE <<>>

\* Rule 1 and 1b: lighting
LightingRule(n, label, category, latest, t) ==
    IF Contains(label, K_light) \/ category = "Lighting"
    THEN (IF latest.light_lux > 800
          THEN Candidate(n, "lighting_waste", "warning") ELSE <<>>)
         \o (IF current_hour(t) >= 23 \/ current_hour(t) < 5
             THEN Candidate(n, "lighting_curfew_waste", "warning")
             ELSE <<>>)
    ELSE <<>>

\* Rule 2a and 4: air conditioning
ACRule(n, label, category, watts, latest) ==
    IF category = "AC" \/ Contains(label, K_ac) \/ Contains(label, K_cooling)
          \/ Contains(label, K_air_con)
    THEN (IF /\ watts > 200
             /\ Truthy(latest.temperature_c) /\ Truthy(latest.outdoor_temp_c)
             /\ latest.temperature_c < 21 /\ latest.outdoor_temp_c < 24
          THEN Candidate(n, "hvac_inefficient_use", "warning") ELSE <<>>)
         \o (IF Truthy(latest.temperature_c) /\ latest.temperature_c < 20
             THEN Candidate(n, "hvac_overcooling", "warning") ELSE <<>>)
         \o (IF /\ Truthy(latest.outdoor_temp_c) /\ Truthy(latest.temperature_c)
                /\ latest.temperature_c - latest.outdoor_temp_c > 3
             THEN Candidate(n, "free_cooling_avail", "info") ELSE <<>>)
    ELSE <<>>

\* Rule 2b: heater
HeaterRule(n, label, category, watts, latest) ==
    IF category = "Heater" \/ Contains(label, K_heater)
          \/ Contains(label, K_heating)
    THEN (IF /\ watts > 200
             /\ Truthy(latest.temperature_c) /\ Truthy(latest.outdoor_temp_c)
             /\ latest.temperature_c > 25 /\ latest.outdoor_temp_c > 20
          THEN Candidate(n, "hvac_inefficient_use", "warning") ELSE <<>>)
    ELSE <<>>

HeatingRule(n, label, category, latest) ==
    IF Contains(label, K_heater) \/ Contains(label, K_heating)
          \/ category = "HVAC"
    THEN (IF Truthy(latest.temperature_c) /\ latest.temperature_c > 26
          THEN Candidate(n, "hvac_overheating", "warning") ELSE <<>>)
    ELSE <<>>

\* Rule 3: phantom loads, 0.02 A < current < 0.2 A
PhantomRule(n, current) ==
    IF 20 < current /\ current < 200
    THEN Candidate(n, "phantom_load", "info") ELSE <<>>

\* one pass of the loop  for sensor_num in [1, 2]
SensorRules(device_id, n, latest, t) ==
    LET current == latest.sensor[n].amps
        watts == latest.sensor[n].watts
        voltage == latest.sensor[n].voltage
        label == LabelOf(device_id, n)
        category == CategoryOf(device_id, n)
    IN  VoltageRule(n, voltage)
        \o (IF watts < 5 THEN <<>>
            ELSE LightingRule(n, label, category, latest, t)
                 \o ACRule(n, label, category, watts, latest)
                 \o HeaterRule(n, label, category, watts, latest)
                 \o HeatingRule(n, label, category, latest)
                 \o PhantomRule(n, current))

\* a comparison of None with a number raises TypeError
SensorRaises(device_id, n, latest) ==
    \/ latest.sensor[n].voltage = NONE
    \/ latest.sensor[n].watts = NONE
    \/ /\ latest.sensor[n].watts >= 5
       /\ \/ /\ \/ Contains(LabelOf(device_id, n), K_light)
                \/ CategoryOf(device_id, n) = "Lighting"
             /\ latest.light_lux = NONE
          \/ latest.sensor[n].amps = NONE

AuditRaises(device_id, latest) ==
    \E n \in {1, 2} : SensorRaises(device_id, n, latest)

\* the list  alerts  built by run_energy_audit
AuditAlerts(device_id, latest, dayWatts, t) ==
    DailyRule(dayWatts)
    \o SensorRules(device_id, SensorNumbers[1], latest, t)
    \o SensorRules(device_id, SensorNumbers[2], latest, t)

\* a de-duplication that looks at the device and the type only
recent_any_sensor(logs, device_id, alert, t) ==
    \E k \in 1..Len(logs) :
        /\ logs[k].device_id = device_id
        /\ logs[k].audit_type = alert.type
        /\ logs[k].timestamp > t - DEDUP_WINDOW_SECONDS

\* a de-duplication that never expires
recent_forever(logs, device_id, alert, t) ==
    \E k \in 1..Len(logs) :
        /\ logs[k].device_id = device_id
        /\ logs[k].sensor_number = alert.sensor
        /\ logs[k].audit_type = alert.type

\* the query  recent : a row of the same device, sensor and type that is
\* younger than ten minutes
recent(logs, device_id, alert, t) ==
    \E k \in 1..Len(logs) :
        /\ logs[k].device_id = device_id
        /\ logs[k].sensor_number = alert.sensor
        /\ logs[k].audit_type = alert.type
        /\ logs[k].timestamp > t - DEDUP_WINDOW_SECONDS

\* the loop  for alert in alerts : the rows after the k-th and later alerts
RECURSIVE save_alerts(_, _, _, _, _)
save_alerts(logs, device_id, alertList, k, t) ==
    IF k > Len(alertList) THEN logs
    ELSE IF recent(logs, device_id, alertList[k], t)
         THEN save_alerts(logs, device_id, alertList, k + 1, t)
         ELSE save_alerts(
                Append(logs, [device_id |-> device_id,
                              sensor_number |-> alertList[k].sensor,
                              audit_type |-> alertList[k].type,
                              severity |-> alertList[k].severity,
                              timestamp |-> t]),
                device_id, alertList, k + 1, t)

\* (variant) an audit that returns only the alerts it has persisted
audit_result_persisted(logs, device_id, alertList, t) ==
    SelectSeq(alertList, LAMBDA alert : ~recent(logs, device_id, alert, t))

\* return alerts : the whole list, after the loop that saves
audit_result(logs, device_id, alertList, t) == alertList

\* the outdoor temperature a request stores, and the cache it leaves:
\* fetch is "ok" (status 200), "fail" (another status) or "raise"
CacheFresh ==
    /\ weather_cache.data # NONE /\ weather_cache.timestamp # NONE
    /\ now - weather_cache.timestamp < WEATHER_CACHE_SECONDS

OutdoorTemp(fetch, temp) ==
    IF CacheFresh THEN weather_cache.data
    ELSE IF fetch = "ok" THEN temp
    ELSE IF fetch = "raise" THEN weather_cache.data
    ELSE NONE

NextCache(fetch, temp) ==
    IF ~CacheFresh /\ fetch = "ok"
    THEN [data |-> temp, timestamp |-> now]
    ELSE weather_cache

\* no request of the worker is waiting
IdlePost == [pc |-> "idle", device_id |-> "", reading |-> <<>>,
             new_device |-> FALSE, logs_at_start |-> 0]

\* post_reading followed by run_energy_audit
PostReading(device_id, r, fetch, temp) ==
    /\ eReadingCount < MaxReadings
    /\ CacheFresh => (fetch = "ok" /\ temp = weather_cache.data)
    /\ LET latest == [sensor |-> r.sensor,
                      temperature_c |-> r.temperature_c,
                      light_lux |-> r.light_lux,
                      outdoor_temp_c |-> OutdoorTemp(fetch, temp)]
           dayWatts == eDayWatts[device_id]
                         + (IF r.sensor[1].watts = NONE THEN 0
                            ELSE r.sensor[1].watts)
                         + (IF r.sensor[2].watts = NONE THEN 0
                            ELSE r.sensor[2].watts)
           alertList == AuditAlerts(device_id, latest, dayWatts, now)
       IN  /\ eDevices' = eDevices \cup {device_id}
           /\ weather_cache' = NextCache(fetch, temp)
           /\ eReadingCount' = eReadingCount + 1
           /\ eDayWatts' = [eDayWatts EXCEPT ![device_id] = dayWatts]
           /\ IF AuditRaises(device_id, latest)
              THEN /\ UNCHANGED eLogs
                   /\ ret' = [op |-> "reading", device_id |-> device_id,
                              status |-> 500, alerts |-> <<>>,
                              latest |-> latest,
                              rows_before |-> Len(eLogs),
                              logs_at_start |-> Len(eLogs),
                              fetch |-> IF CacheFresh THEN "cached"
                                        ELSE fetch]
              ELSE /\ eLogs' = save_alerts(eLogs, device_id, alertList, 1, now)
                   /\ ret' = [op |-> "reading", device_id |-> device_id,
                              status |-> 200,
                              alerts |-> audit_result(eLogs, device_id,
                                                      alertList, now),
                              latest |-> latest,
                              rows_before |-> Len(eLogs),
                              logs_at_start |-> Len(eLogs),
                              fetch |-> IF CacheFresh THEN "cached"
                                        ELSE fetch]
    /\ UNCHANGED <<now, eConfigs, ePost, burglaryVars, healthVars, wasteVars>>

\* post_reading up to  await client.get(...) : the device row is looked up
\* and, when absent, added to the session; the cache is found stale
PostBegin(w, device_id, r) ==
    /\ ePost[w].pc = "idle"
    /\ ~CacheFresh
    /\ eReadingCount + Cardinality({v \in Workers : ePost[v].pc = "fetch"})
          < MaxPosts
    /\ ePost' = [ePost EXCEPT ![w] =
                    [pc |-> "fetch", device_id |-> device_id, reading |-> r,
                     new_device |-> device_id \notin eDevices,
                     logs_at_start |-> Len(eLogs)]]
    /\ ret' = NoRet
    /\ UNCHANGED <<now, eDevices, eConfigs, eReadingCount, eDayWatts, eLogs,
                   weather_cache, burglaryVars, healthVars, wasteVars>>

\* the outdoor temperature after the fetch of a request that found the
\* cache stale
FetchedTemp(fetch, temp) ==
    IF fetch = "ok" THEN temp
    ELSE IF fetch = "raise" THEN weather_cache.data
    ELSE NONE

\* the rows the de-duplication query of a resumed request reads: the table
\* as it is when the query runs
\* (variant) the table as it was when the request arrived
DedupView_at_start(w) == SubSeq(eLogs, 1, ePost[w].logs_at_start)
DedupView(w) == eLogs

\* post_reading from the return of the await to its response: no further
\* await, so the commit of the reading, the audit and the commit of the
\* audit logs run without another request in between
PostFinish(w, fetch, temp) ==
    /\ ePost[w].pc = "fetch"
    /\ LET device_id == ePost[w].device_id
           r == ePost[w].reading
           latest == [sensor |-> r.sensor,
                      temperature_c |-> r.temperature_c,
                      light_lux |-> r.light_lux,
                      outdoor_temp_c |-> FetchedTemp(fetch, temp)]
           dayWatts == eDayWatts[device_id]
                         + (IF r.sensor[1].watts = NONE THEN 0
                            ELSE r.sensor[1].watts)
                         + (IF r.sensor[2].watts = NONE THEN 0
                            ELSE r.sensor[2].watts)
           alertList == AuditAlerts(device_id, latest, dayWatts, now)
           view == DedupView(w)
           saved == save_alerts(view, device_id, alertList, 1, now)
       IN  /\ weather_cache' = IF fetch = "ok"
                               THEN [data |-> temp, timestamp |-> now]
                               ELSE weather_cache
           /\ ePost' = [ePost EXCEPT ![w] = IdlePost]
           /\ IF ePost[w].new_device /\ device_id \in eDevices
              THEN \* the INSERT of energy_devices violates unique(device_id)
                   /\ UNCHANGED <<eDevices, eReadingCount, eDayWatts, eLogs>>
                   /\ ret' = [op |-> "reading", device_id |-> device_id,
                              status |-> 500, alerts |-> <<>>,
                              latest |-> latest,
                              rows_before |-> Len(eLogs),
                              logs_at_start |-> ePost[w].logs_at_start]
              ELSE /\ eDevices' = eDevices \cup {device_id}
                   /\ eReadingCount' = eReadingCount + 1
                   /\ eDayWatts' = [eDayWatts EXCEPT ![device_id] = dayWatts]
                   /\ IF AuditRaises(device_id, latest)
                      THEN /\ UNCHANGED eLogs
                           /\ ret' = [op |-> "reading",
                                      device_id |-> device_id,
                                      status |-> 500, alerts |-> <<>>,
                                      latest |-> latest,
                                      rows_before |-> Len(eLogs),
                                      logs_at_start |-> ePost[w].logs_at_start]
                      ELSE /\ eLogs' = eLogs
                                  \o SubSeq(saved, Len(view) + 1, Len(saved))
                           /\ ret' = [op |-> "reading",
                                      device_id |-> device_id,
                                      status |-> 200,
                                      alerts |-> audit_result(view, device_id,
                                                              alertList, now),
                                      latest |-> latest,
                                      rows_before |-> Len(eLogs),
                                      logs_at_start |-> ePost[w].logs_at_start]
    /\ UNCHANGED <<now, eConfigs, burglaryVars, healthVars, wasteVars>>

\* time passes between two requests
Advance(t) ==
    /\ t > now
    /\ now' = t
    /\ ret' = NoRet
    /\ UNCHANGED <<burglaryVars, energyVars, healthVars, wasteVars>>

\* inputs of the model
SensorInputs ==
    {[amps |-> 1100, watts |-> 250, voltage |-> 230],
     [amps |-> 100, watts |-> 20, voltage |-> 195]}

ReadingInputs ==
    {[sensor |-> <<s1, s2>>, temperature_c |-> 19, light_lux |-> 900] :
        s1 \in SensorInputs, s2 \in SensorInputs}

\* readings a device sends again while the previous one is being processed
RepeatedInputs == {r \in ReadingInputs : r.sensor[1] = r.sensor[2]}

OutdoorTemps == {22}

\* readings for the rules of the audit
NormalSensor == [amps |-> 1100, watts |-> 250, voltage |-> 230]

\* voltages on both sides of 200 V and of 250 V, with the load off and on
VoltageInputs ==
    {[sensor |-> <<[amps |-> 0, watts |-> w, voltage |-> v], NormalSensor>>,
      temperature_c |-> 23, light_lux |-> 100] :
        w \in {0, 250}, v \in {195, 199, 200, 230, 250, 251}}

\* loads on both sides of 200 W and rooms on both sides of 21 degrees,
\* and a room at 0 degrees
HvacInputs ==
    {[sensor |-> <<[amps |-> 1100, watts |-> w, voltage |-> 230],
                   NormalSensor>>,
      temperature_c |-> c, light_lux |-> 100] :
        w \in {200, 201, 250}, c \in {0, 19, 21}}

\* readings with a JSON null in one field
NullInputs ==
    {[sensor |-> <<[amps |-> 1100, watts |-> 250, voltage |-> NONE],
                   [amps |-> 100, watts |-> 20, voltage |-> 195]>>,
      temperature_c |-> 23, light_lux |-> 100],
     [sensor |-> <<[amps |-> 1100, watts |-> NONE, voltage |-> 195],
                   NormalSensor>>,
      temperature_c |-> 23, light_lux |-> 100],
     [sensor |-> <<[amps |-> 1100, watts |-> 250, voltage |-> 195],
                   [amps |-> 100, watts |-> 20, voltage |-> 230]>>,
      temperature_c |-> NONE, light_lux |-> 100]}

RuleInputs == VoltageInputs \cup HvacInputs \cup NullInputs
RuleOutdoorTemps == {0, 22, 24}

\* request instants 899 s and 900 s after the first, and later
WeatherInstants == {909, 910, 1000}
WeatherTemps == {22, 30}
FetchOutcomes == {"ok", "fail", "raise"}

\* the rows of the sensor configuration table; no route writes this table
SensorConfigs ==
    {[device_id |-> "d1", sensor_number |-> 1,
      custom_label |-> <<"B", "e", "d", "r", "o", "o", "m", " ", "A", "C">>,
      appliance_category |-> "AC"]}

InitEnergy ==
    /\ eDevices = {}
    /\ eReadingCount = 0
    /\ eDayWatts = [d \in EDeviceIds |-> 0]
    /\ eLogs = <<>>
    /\ weather_cache = [data |-> NONE, timestamp |-> NONE]
    /\ ePost = [w \in Workers |-> IdlePost]

(***************************************************************************)
(* Health monitoring: create_device, create_vital_reading, analyze_vitals  *)
(*   temperatures are counted in tenths of a degree                        *)
(***************************************************************************)
HDeviceIds == {"h1", "h2"}

\* default_thresholds of create_device
DefaultThresholds ==
    <<[type |-> "HR_HIGH", value |-> 100],
      [type |-> "HR_LOW", value |-> 50],
      [type |-> "SPO2_LOW", value |-> 95],
      [type |-> "SPO2_CRITICAL", value |-> 90],
      [type |-> "TEMP_HIGH", value |-> 380],
      [type |-> "TEMP_LOW", value |-> 355]>>

\* the rows create_device adds for a new device
SeedRows(device_id) ==
    [k \in 1..Len(DefaultThresholds) |->
        [device_id |-> device_id,
         threshold_type |-> DefaultThresholds[k].type,
         threshold_value |-> DefaultThresholds[k].value,
         enabled |-> TRUE]]

\* the tables after create_device(device_id, is_athlete)
DevicesAfterCreate(device_id, is_athlete) ==
    [d \in DOMAIN hDevices \cup {device_id} |->
        IF d = device_id THEN [is_athlete |-> is_athlete] ELSE hDevices[d]]

\* (variant) a registration that adds the device row only
ThresholdsAfterCreate_unseeded(device_id) == hThresholds

ThresholdsAfterCreate(device_id) ==
    IF device_id \in DOMAIN hDevices THEN hThresholds
    ELSE hThresholds \o SeedRows(device_id)

\* (variant) an analysis that ignores the stored rows
threshold_get_default_only(rows, device_id, type, default) == default

\* (variant) an analysis that reads the disabled rows too
threshold_get_all_rows(rows, device_id, type, default) ==
    LET ks == {k \in 1..Len(rows) : /\ rows[k].device_id = device_id
                                    /\ rows[k].threshold_type = type}
    IN  IF ks = {} THEN default
        ELSE rows[CHOOSE k \in ks : \A j \in ks : j <= k].threshold_value

\* threshold_dict.get(type, default) over the enabled rows of the device
threshold_get(rows, device_id, type, default) ==
    LET ks == {k \in 1..Len(rows) : /\ rows[k].device_id = device_id
                                    /\ rows[k].enabled
                                    /\ rows[k].threshold_type = type}
    IN  IF ks = {} THEN default
        ELSE rows[CHOOSE k \in ks : \A j \in ks : j <= k].threshold_value

HAlert(type, severity) == <<[type |-> type, severity |-> severity]>>

\* the alerts of analyze_vitals, in the order of their creation
VitalAlerts(rows, device_id, is_athlete, v) ==
    LET hr == v.bpm
        spo2 == IF v.spo2_valid THEN v.percent ELSE 0
        temp == v.celsius
        th(type, default) == threshold_get(rows, device_id, type, default)
    IN  (IF spo2 > 0 /\ spo2 < th("SPO2_CRITICAL", 90)
         THEN HAlert("CRITICAL_HYPOXIA", "CRITICAL")
         ELSE IF spo2 > 0 /\ spo2 < th("SPO2_LOW", 95)
              THEN HAlert("LOW_SPO2", "WARNING") ELSE <<>>)
        \o (IF spo2 > 0 /\ spo2 < 94 /\ hr > 90
            THEN HAlert("RESPIRATORY_DISTRESS", "CRITICAL") ELSE <<>>)
        \o (IF temp > 375 /\ hr > 90 /\ spo2 > 0 /\ spo2 < 96
            THEN HAlert("INFECTION_PATTERN", "WARNING") ELSE <<>>)
        \o (IF temp > th("TEMP_HIGH", 380)
            THEN (IF hr > th("HR_HIGH", 100)
                  THEN HAlert("FEVER", "WARNING")
                  ELSE HAlert("HIGH_TEMP", "WARNING"))
            ELSE <<>>)
        \o (IF hr > th("HR_HIGH", 100)
            THEN HAlert("TACHYCARDIA", "WARNING") ELSE <<>>)
        \o (IF hr < th("HR_LOW", 50) /\ hr > 0 /\ ~is_athlete
            THEN HAlert("BRADYCARDIA", "WARNING") ELSE <<>>)
        \o (IF v.is_estimated /\ hr > 100
            THEN HAlert("TEMP_EST_UNRELIABLE", "INFO") ELSE <<>>)
        \o (IF temp < th("TEMP_LOW", 355)
            THEN HAlert("HYPOTHERMIA", "CRITICAL") ELSE <<>>)
        \o (IF spo2 > 0 /\ spo2 < 90 /\ hr > 90 /\ temp > 375
            THEN HAlert("SEVERE_INFECTION", "CRITICAL") ELSE <<>>)

\* create_alert for each alert of the list: one row each, stamped utcnow()
AlertRows(device_id, alertList, t) ==
    [k \in 1..Len(alertList) |->
        [device_id |-> device_id,
         alert_type |-> alertList[k].type,
         severity |-> alertList[k].severity,
         timestamp |-> t,
         acknowledged |-> FALSE]]

\* POST /health/devices
RegisterHealthDevice(device_id, is_athlete) ==
    /\ hDevices' = DevicesAfterCreate(device_id, is_athlete)
    /\ hThresholds' = ThresholdsAfterCreate(device_id)
    /\ ret' = [op |-> "register", device_id |-> device_id]
    /\ UNCHANGED <<now, hReadingCount, hAlerts, hVitals,
                   pending_state_commands, burglaryVars, energyVars,
                   wasteVars>>

\* POST /health/vitals: an unknown device is registered with the defaults
\* of DeviceCreate, the reading is stored, and the analysis stores its alerts
\* fail_at is the number of the create_alert call whose commit raises,
\* 0 when the storage accepts every commit
ReceiveVitals(device_id, v, fail_at) ==
    /\ hReadingCount < MaxVitals
    /\ LET devices == IF device_id \in DOMAIN hDevices THEN hDevices
                      ELSE DevicesAfterCreate(device_id, FALSE)
           rows == ThresholdsAfterCreate(device_id)
           alertList == VitalAlerts(rows, device_id,
                                    devices[device_id].is_athlete, v)
       IN  /\ hDevices' = devices
           /\ hThresholds' = rows
           /\ hReadingCount' = hReadingCount + 1
           /\ hVitals' = [hVitals EXCEPT ![device_id] = @ + 1]
           /\ fail_at <= Len(alertList)
           /\ IF fail_at = 0
              THEN /\ hAlerts' = hAlerts
                                  \o AlertRows(device_id, alertList, now)
                   /\ ret' = [op |-> "vitals", device_id |-> device_id,
                              vitals |-> v, status |-> 200,
                              created |-> device_id \notin DOMAIN hDevices,
                              alerts |-> alertList,
                              rows_before |-> Len(hAlerts)]
              ELSE \* the alerts before the failing one are committed
                   /\ hAlerts' = hAlerts
                                  \o AlertRows(device_id,
                                               SubSeq(alertList, 1,
                                                      fail_at - 1), now)
                   /\ ret' = [op |-> "vitals", device_id |-> device_id,
                              vitals |-> v, status |-> 500,
                              created |-> device_id \notin DOMAIN hDevices,
                              alerts |-> <<>>,
                              rows_before |-> Len(hAlerts)]
    /\ UNCHANGED <<now, pending_state_commands, burglaryVars, energyVars,
                   wasteVars>>

\* the first row of a device and threshold type, 0 when there is none
first_threshold(rows, device_id, type) ==
    LET ks == {k \in 1..Len(rows) : /\ rows[k].device_id = device_id
                                    /\ rows[k].threshold_type = type}
    IN  IF ks = {} THEN 0 ELSE CHOOSE k \in ks : \A j \in ks : k <= j

\* (variant) an update that always inserts
update_threshold_insert(rows, device_id, item) ==
    Append(rows, [device_id |-> device_id,
                  threshold_type |-> item.threshold_type,
                  threshold_value |-> item.threshold_value,
                  enabled |-> item.enabled])

\* update_threshold(db, device_id, threshold): the table after the call
update_threshold(rows, device_id, item) ==
    LET k == first_threshold(rows, device_id, item.threshold_type)
    IN  IF k # 0
        THEN [rows EXCEPT ![k].threshold_value = item.threshold_value,
                          ![k].enabled = item.enabled]
        ELSE Append(rows, [device_id |-> device_id,
                           threshold_type |-> item.threshold_type,
                           threshold_value |-> item.threshold_value,
                           enabled |-> item.enabled])

\* the loop  for threshold_item in thresholds.thresholds
RECURSIVE update_all(_, _, _, _)
update_all(rows, device_id, items, k) ==
    IF k > Len(items) THEN rows
    ELSE update_all(update_threshold(rows, device_id, items[k]),
                    device_id, items, k + 1)

\* POST /health/devices/{device_id}/thresholds
SetThresholds(device_id, items) ==
    /\ IF device_id \notin DOMAIN hDevices
       THEN /\ UNCHANGED hThresholds
            /\ ret' = [op |-> "thresholds", device_id |-> device_id,
                       items |-> items, status |-> 404]
       ELSE /\ hThresholds' = update_all(hThresholds, device_id, items, 1)
            /\ ret' = [op |-> "thresholds", device_id |-> device_id,
                       items |-> items, status |-> 200]
    /\ UNCHANGED <<now, hDevices, hReadingCount, hAlerts, hVitals,
                   pending_state_commands, burglaryVars, energyVars,
                   wasteVars>>

\* the threshold rows a client posts: a raised critical SpO2 limit, a
\* lowered and disabled one, and a type that is not among the defaults
ThresholdItems ==
    {[threshold_type |-> "SPO2_CRITICAL", threshold_value |-> 92,
      enabled |-> TRUE],
     [threshold_type |-> "SPO2_CRITICAL", threshold_value |-> 85,
      enabled |-> FALSE],
     [threshold_type |-> "HR_CRITICAL", threshold_value |-> 150,
      enabled |-> TRUE]}

\* the lists a client posts: one row, or a row and then the row that
\* switches its type off
ThresholdLists ==
    {<<a>> : a \in ThresholdItems}
        \cup {q \in ThresholdItems \X ThresholdItems :
                  /\ q[1].threshold_type = q[2].threshold_type
                  /\ q[1].enabled /\ ~q[2].enabled}

\* a client switches thresholds off, leaving values that differ from the
\* defaults: all six rows at once, or one row
Disabled(type, value) ==
    [threshold_type |-> type, threshold_value |-> value, enabled |-> FALSE]

DisableLists ==
    {<<Disabled("HR_HIGH", 120), Disabled("HR_LOW", 40),
       Disabled("SPO2_LOW", 92), Disabled("SPO2_CRITICAL", 85),
       Disabled("TEMP_HIGH", 390), Disabled("TEMP_LOW", 340)>>,
     <<Disabled("SPO2_CRITICAL", 85)>>}

\* readings between the default limits and the values of the disabled rows
DefaultVitals ==
    {[bpm |-> 70, percent |-> 98, spo2_valid |-> TRUE, celsius |-> 366,
      is_estimated |-> FALSE],
     [bpm |-> 110, percent |-> 89, spo2_valid |-> TRUE, celsius |-> 385,
      is_estimated |-> FALSE],
     [bpm |-> 45, percent |-> 93, spo2_valid |-> TRUE, celsius |-> 350,
      is_estimated |-> FALSE]}

\* readings around the critical SpO2 limits 85, 90 and 92
SpO2Inputs ==
    {[bpm |-> 70, percent |-> p, spo2_valid |-> TRUE, celsius |-> 366,
      is_estimated |-> FALSE] : p \in {0, 89, 90, 91, 96}}
        \cup {[bpm |-> 70, percent |-> 89, spo2_valid |-> FALSE,
                celsius |-> 366, is_estimated |-> FALSE]}

VitalsInputs ==
    {[bpm |-> 70, percent |-> 98, spo2_valid |-> TRUE, celsius |-> 366,
      is_estimated |-> FALSE],
     [bpm |-> 70, percent |-> 89, spo2_valid |-> TRUE, celsius |-> 366,
      is_estimated |-> FALSE],
     [bpm |-> 110, percent |-> 93, spo2_valid |-> TRUE, celsius |-> 385,
      is_estimated |-> TRUE]}

(***************************************************************************)
(* clear_device_data: delete_device_vitals, then delete_device_alerts      *)
(***************************************************************************)
\* the readings per device after  query(...).filter(device_id == ...).delete()
delete_device_vitals(vitals, device_id) == [vitals EXCEPT ![device_id] = 0]

\* (variant) a delete without its filter
delete_device_alerts_unfiltered(rows, device_id) == <<>>

\* the alert rows after  query(...).filter(device_id == ...).delete()
delete_device_alerts(rows, device_id) ==
    SelectSeq(rows, LAMBDA row : row.device_id # device_id)

\* DELETE /health/devices/{device_id}/data
ClearDeviceData(device_id) ==
    /\ IF device_id \notin DOMAIN hDevices
       THEN /\ UNCHANGED <<hReadingCount, hVitals, hAlerts>>
            /\ ret' = [op |-> "clear", device_id |-> device_id,
                       status |-> 404, vitals_deleted |-> 0,
                       alerts_deleted |-> 0]
       ELSE /\ hVitals' = delete_device_vitals(hVitals, device_id)
            /\ hReadingCount' = hReadingCount - hVitals[device_id]
            /\ hAlerts' = delete_device_alerts(hAlerts, device_id)
            /\ ret' = [op |-> "clear", device_id |-> device_id,
                       status |-> 200,
                       vitals_deleted |-> hVitals[device_id],
                       alerts_deleted |->
                          Len(hAlerts)
                            - Len(delete_device_alerts(hAlerts, device_id))]
    /\ UNCHANGED <<now, hDevices, hThresholds, pending_state_commands,
                   burglaryVars, energyVars, wasteVars>>

(***************************************************************************)
(* State commands of the health devices: set_device_state and              *)
(* get_pending_state                                                       *)
(***************************************************************************)
VALID_STATES == {"idle", "monitoring", "paused"}
StateInputs == VALID_STATES \cup {"off"}

\* pending_state_commands[device_id], <<>> when the key is missing
QueueOf(device_id) ==
    IF device_id \in DOMAIN pending_state_commands
    THEN pending_state_commands[device_id] ELSE <<>>

\* the number of commands in all the queues
Queued ==
    LET RECURSIVE sum(_)
        sum(D) == IF D = {} THEN 0
                  ELSE LET d == CHOOSE x \in D : TRUE
                       IN  Len(pending_state_commands[d]) + sum(D \ {d})
    IN  sum(DOMAIN pending_state_commands)

\* (variant) a poll that hands out the oldest command
pending_state_oldest(queue) == queue[1]

\* pending_state_commands[device_id][-1]
pending_state(queue) == queue[Len(queue)]

\* POST /health/devices/{device_id}/state
SetDeviceState(device_id, state) ==
    /\ Queued < MaxCommands
    /\ IF state \notin VALID_STATES
       THEN /\ UNCHANGED pending_state_commands
            /\ ret' = [op |-> "set_state", device_id |-> device_id,
                       state |-> state, status |-> 400]
       ELSE /\ pending_state_commands' =
                  [d \in DOMAIN pending_state_commands \cup {device_id} |->
                      IF d = device_id THEN Append(QueueOf(d), state)
                      ELSE pending_state_commands[d]]
            /\ ret' = [op |-> "set_state", device_id |-> device_id,
                       state |-> state, status |-> 200]
    /\ UNCHANGED <<now, hDevices, hThresholds, hReadingCount, hAlerts,
                   hVitals, burglaryVars, energyVars, wasteVars>>

\* GET /health/devices/{device_id}/state/pending
GetPendingState(device_id) ==
    /\ IF device_id \in DOMAIN pending_state_commands
             /\ Len(QueueOf(device_id)) > 0
       THEN /\ pending_state_commands' =
                  [pending_state_commands EXCEPT ![device_id] = <<>>]
            /\ ret' = [op |-> "pending", device_id |-> device_id,
                       has_pending |-> TRUE,
                       state |-> pending_state(QueueOf(device_id)),
                       queued |-> Len(QueueOf(device_id))]
       ELSE /\ UNCHANGED pending_state_commands
            /\ ret' = [op |-> "pending", device_id |-> device_id,
                       has_pending |-> FALSE, state |-> "", queued |-> 0]
    /\ UNCHANGED <<now, hDevices, hThresholds, hReadingCount, hAlerts,
                   hVitals, burglaryVars, energyVars, wasteVars>>

(***************************************************************************)
(* Waste bins: update_bins, reset_bin and log_bin_event of main.py         *)
(*   weights are counted in tenths of a kilogram                           *)
(***************************************************************************)
BinIds == {"0x001", "0x002"}
NoBin == [type |-> "none", weight |-> 0, level |-> 0, full |-> FALSE]

\* the (weight, level) pairs a device sends: neither, the level only, the
\* weight only
Measures == {<<0, NONE>>, <<0, 50>>, <<50, NONE>>}
\* the event type a client logs by hand
EventTypes == {"full"}

\* lines 421-428: the weight estimated from the level, (level / 100) * 10 kg
weight_of(weight, level) ==
    IF level # NONE /\ weight = 0 THEN level ELSE weight

\* the level estimated from the weight, int((weight / 10) * 100)
level_of(weight, level) ==
    IF level # NONE /\ weight = 0 THEN level
    ELSE IF weight > 0 /\ level = NONE THEN weight
    ELSE level

\* the condition of the event, evaluated after  bin.full = data_full  has
\* been assigned to the row
became_full(data_full, row) == data_full /\ ~row.full

\* lines 430-449 and 464-484: one of the two bins of the request, applied to
\* the rows b and the pending events e of the session
UpdateOne(b, e, bin_id, type, m, data_full) ==
    LET w == weight_of(m[1], m[2])
        l == level_of(m[1], m[2])
    IN  IF b[bin_id] # NoBin
        THEN LET row == [b[bin_id] EXCEPT !.weight = w,
                            !.level = IF l # NONE THEN l ELSE 0,
                            !.full = data_full]
             IN  [bins |-> [b EXCEPT ![bin_id] = row],
                  events |-> IF became_full(data_full, row)
                             THEN Append(e, [bin_id |-> bin_id,
                                             event_type |-> "full"])
                             ELSE e]
        ELSE [bins |-> [b EXCEPT ![bin_id] =
                           [type |-> type, weight |-> w,
                            level |-> IF l # NONE THEN l ELSE 0,
                            full |-> data_full]],
              events |-> e]

\* the request names one id twice and no row has it: two rows with one
\* primary key are added, and the commit fails
UpdateFails(org_id, non_id) == org_id = non_id /\ bins[org_id] = NoBin

UpdateBins(org_id, non_id, om, o_full, nm, n_full) ==
    LET first == UpdateOne(bins, binEvents, org_id, "organic", om, o_full)
        second == UpdateOne(first.bins, first.events, non_id, "non_organic",
                            nm, n_full)
    IN  /\ Len(second.events) <= MaxEvents
        /\ IF UpdateFails(org_id, non_id)
           THEN /\ UNCHANGED <<bins, binEvents>>
                /\ ret' = [op |-> "update_bins", image |-> NULL,
                           result |-> NULL, status |-> 500,
                           ids |-> <<org_id, non_id>>,
                           full |-> <<o_full, n_full>>]
           ELSE /\ bins' = second.bins
                /\ binEvents' = second.events
                /\ ret' = [op |-> "update_bins", image |-> NULL,
                           result |-> NULL, status |-> 200,
                           ids |-> <<org_id, non_id>>,
                           full |-> <<o_full, n_full>>]
        /\ UNCHANGED <<now, burglaryVars, energyVars, healthVars>>

ResetBin(bin_id) ==
    /\ Len(binEvents) < MaxEvents
    /\ IF bins[bin_id] = NoBin
       THEN /\ UNCHANGED <<bins, binEvents>>
            /\ ret' = [op |-> "reset_bin", image |-> NULL, result |-> NULL,
                       status |-> 404]
       ELSE /\ bins' = [bins EXCEPT ![bin_id].weight = 0,
                                    ![bin_id].level = 0,
                                    ![bin_id].full = FALSE]
            /\ binEvents' = Append(binEvents, [bin_id |-> bin_id,
                                               event_type |-> "reset"])
            /\ ret' = [op |-> "reset_bin", image |-> NULL, result |-> NULL,
                       status |-> 200]
    /\ UNCHANGED <<now, burglaryVars, energyVars, healthVars>>

LogBinEvent(bin_id, event_type) ==
    /\ Len(binEvents) < MaxEvents
    /\ binEvents' = Append(binEvents, [bin_id |-> bin_id,
                                       event_type |-> event_type])
    /\ ret' = [op |-> "log_bin_event", image |-> NULL, result |-> NULL,
               status |-> 200]
    /\ UNCHANGED <<now, bins, burglaryVars, energyVars, healthVars>>

InitWaste ==
    /\ bins = [b \in BinIds |-> NoBin]
    /\ binEvents = <<>>

InitHealth ==
    /\ hDevices = <<>>
    /\ hThresholds = <<>>
    /\ hReadingCount = 0
    /\ hAlerts = <<>>
    /\ hVitals = [d \in HDeviceIds |-> 0]
    /\ pending_state_commands = [d \in {} |-> <<>>]

InitBurglary ==
    /\ alerts = <<>>
    /\ images = <<>>
    /\ upl = [w \in Workers |-> "idle"]
    /\ tgSend = NoSend
    /\ tgConfig = NoConfig
    /\ imagesGone = {}

Init ==
    /\ now = LOOKBACK_SECONDS
    /\ ret = NoRet
    /\ InitBurglary
    /\ InitEnergy
    /\ eConfigs = {}
    /\ InitHealth
    /\ InitWaste

Next ==
    \/ \E ts \in AlertTimes : ReceiveAlert(ts, TRUE, "none")
    \/ \E w \in Workers : UploadBegin(w)
    \/ \E w \in Workers, stored \in BOOLEAN : UploadFinish(w, stored)
    \/ \E i \in ImageIds : Correlate(i)
    \/ Tick

Spec == Init /\ [][Next]_vars

InitE ==
    /\ now = LOOKBACK_SECONDS
    /\ ret = NoRet
    /\ InitBurglary
    /\ InitEnergy
    /\ eConfigs = SensorConfigs
    /\ InitHealth
    /\ InitWaste

NextE ==
    \/ \E d \in EDeviceIds, r \in ReadingInputs, f \in FetchOutcomes,
          t \in OutdoorTemps : PostReading(d, r, f, t)
    \/ \E t \in ClockInstants : Advance(t)

\* alerts whose commit and whose notification succeed or fail
NextN ==
    \/ \E ts \in AlertTimes, c \in BOOLEAN, n \in NotifyOutcomes :
          ReceiveAlert(ts, c, n)
    \/ Tick

SpecNotify == Init /\ [][NextN]_vars

\* alerts and images that arrive at a server with an active Telegram
\* configuration: a handler runs only when the event loop is free
NextL ==
    \/ \E ts \in AlertTimes : AlertCommit(ts)
    \/ \E n \in SendOutcomes : SendReturns(n)
    \/ \E w \in Workers : LoopFree /\ UploadBegin(w)
    \/ \E w \in Workers, stored \in BOOLEAN : LoopFree /\ UploadFinish(w, stored)
    \/ Tick

SpecLoop == Init /\ [][NextL]_vars

\* the timestamps of the alerts and the instants of the sweeps: the images
\* of 10 s and 11 s are older than the retention at 86411 s and 86412 s
SweepAlertTimes == {6, 9, 11}
SweepInstants == {86410, 86411, 86412}

\* alerts, uploads whose image is passed once to the correlation function,
\* and retention sweeps
NextP ==
    \/ \E ts \in SweepAlertTimes : ReceiveAlert(ts, TRUE, "none")
    \/ \E w \in Workers : UploadBegin(w)
    \/ \E w \in Workers, stored \in BOOLEAN : UploadFinish(w, stored)
    \/ \E i \in ImageIds :
          ret.op = "upload" /\ ret.image = i /\ Correlate(i)
    \/ \E cloud \in SUBSET ImageIds : CleanupOldImages(cloud)
    \/ \E t \in SweepInstants : Advance(t)
    \/ Tick

SpecSweep == Init /\ [][NextP]_vars

SpecEnergy == InitE /\ [][NextE]_vars

\* readings that arrive while another reading waits for the weather service
NextC ==
    \/ \E w \in Workers, d \in EDeviceIds, r \in RepeatedInputs :
          PostBegin(w, d, r)
    \/ \E w \in Workers, f \in {"ok", "fail"}, t \in OutdoorTemps :
          PostFinish(w, f, t)
    \/ \E d \in EDeviceIds, r \in RepeatedInputs :
          CacheFresh /\ PostReading(d, r, "ok", weather_cache.data)
    \/ \E t \in RetryInstants : Advance(t)

SpecEnergyConc == InitE /\ [][NextC]_vars

\* single readings that exercise the rules of the audit
NextR ==
    \E d \in EDeviceIds, r \in RuleInputs, f \in {"ok", "fail"},
       t \in RuleOutdoorTemps :
        eReadingCount < MaxAudits /\ PostReading(d, r, f, t)

SpecRules == InitE /\ [][NextR]_vars

\* readings that find the weather cache empty, fresh or stale
NextWx ==
    \/ \E d \in EDeviceIds, r \in RepeatedInputs, f \in FetchOutcomes,
          t \in WeatherTemps : PostReading(d, r, f, t)
    \/ \E t \in WeatherInstants : Advance(t)

SpecWeather == InitE /\ [][NextWx]_vars

NextH ==
    \/ \E d \in HDeviceIds, a \in BOOLEAN : RegisterHealthDevice(d, a)
    \/ \E d \in HDeviceIds, v \in VitalsInputs : ReceiveVitals(d, v, 0)
    \/ \E t \in ClockInstants : Advance(t)

SpecHealth == Init /\ [][NextH]_vars

\* devices, their thresholds and the analysis of SpO2 readings
NextT ==
    \/ \E d \in HDeviceIds : RegisterHealthDevice(d, FALSE)
    \/ \E d \in HDeviceIds, items \in ThresholdLists :
          SetThresholds(d, items)
    \/ \E d \in HDeviceIds, v \in SpO2Inputs :
          hReadingCount < MaxAnalyses /\ ReceiveVitals(d, v, 0)

SpecThresholds == Init /\ [][NextT]_vars

\* the analysis of devices whose thresholds are switched off
NextD ==
    \/ \E d \in HDeviceIds, a \in BOOLEAN : RegisterHealthDevice(d, a)
    \/ \E d \in HDeviceIds, items \in DisableLists : SetThresholds(d, items)
    \/ \E d \in HDeviceIds, v \in DefaultVitals :
          hReadingCount < MaxAnalyses /\ ReceiveVitals(d, v, 0)

SpecDefaults == Init /\ [][NextD]_vars

\* vitals whose alerts meet a storage that fails at one commit
FailPoints == 0..3

NextS ==
    \/ \E d \in HDeviceIds, a \in BOOLEAN : RegisterHealthDevice(d, a)
    \/ \E d \in HDeviceIds, v \in VitalsInputs, f \in FailPoints :
          hReadingCount < MaxAnalyses /\ ReceiveVitals(d, v, f)

SpecStorage == Init /\ [][NextS]_vars

NextW ==
    \/ \E org_id, non_id \in BinIds, om, nm \in Measures,
          o_full, n_full \in BOOLEAN :
          UpdateBins(org_id, non_id, om, o_full, nm, n_full)
    \/ \E b \in BinIds : ResetBin(b)
    \/ \E b \in BinIds, e \in EventTypes : LogBinEvent(b, e)

SpecWaste == Init /\ [][NextW]_vars

\* an operator who saves tokens, reads the configuration, and posts back
\* what was read
NextG ==
    \/ \E c \in ChatInputs, t \in TokenInputs, a \in BOOLEAN :
          SaveTelegramConfig(c, t, a)
    \/ GetTelegramConfig
    \/ \E c \in ChatInputs, a \in BOOLEAN :
          /\ ret.op = "get_config" /\ ret.configured
          /\ SaveTelegramConfig(c, ret.bot_token, a)

SpecConfig == Init /\ [][NextG]_vars

\* commands queued for the devices and polled by them
NextQ ==
    \/ \E d \in HDeviceIds, st \in StateInputs : SetDeviceState(d, st)
    \/ \E d \in HDeviceIds : GetPendingState(d)

SpecCommands == Init /\ [][NextQ]_vars

\* devices whose readings and alerts are cleared
NextK ==
    \/ \E d \in HDeviceIds : RegisterHealthDevice(d, FALSE)
    \/ \E d \in HDeviceIds, v \in DefaultVitals :
          hReadingCount < MaxAnalyses /\ ReceiveVitals(d, v, 0)
    \/ \E d \in HDeviceIds : ClearDeviceData(d)

SpecClear == Init /\ [][NextK]_vars

(***************************************************************************)
(* Properties of the correlator                                            *)
(***************************************************************************)
ImageTs == images[ret.image].timestamp
Matched == ret.op = "correlate" /\ ret.result # NULL
Missed == ret.op = "correlate" /\ ret.result = NULL
Distance(a) == Abs(alerts[a].timestamp - ImageTs)

\* C1 (as stated): a call that returns None leaves no uncorrelated alert in
\* the window [image.timestamp - 10 s, image.timestamp + 5 s].
C1_WindowAlertAlwaysMatched ==
    Missed => uncorrelated_alerts(ImageTs) = {}

\* C1 (amended): a call that returns None leaves no uncorrelated alert whose
\* timestamp is strictly less than 5 s away from the image's timestamp.
C1_NearAlertAlwaysMatched ==
    Missed => \A a \in AlertIds :
                 ~alerts[a].correlated
                     => Distance(a) >= CORRELATION_WINDOW_SECONDS

C1_Witness ==
    /\ Matched
    /\ alerts[ret.result].timestamp = ImageTs + CORRELATION_WINDOW_SECONDS - 1

\* C2: a returned match is linked on both sides, and in no state is a link
\* set on one side only.
C2_LinkSymmetric ==
    /\ Matched => /\ alerts[ret.result].correlated
                  /\ alerts[ret.result].image_id = ret.image
                  /\ images[ret.image].alert_id = ret.result
    /\ \A a \in AlertIds :
          alerts[a].image_id # NULL
              => images[alerts[a].image_id].alert_id = a
    /\ \A i \in ImageIds :
          images[i].alert_id # NULL
              => alerts[images[i].alert_id].image_id = i

\* C3: a call for an image that is already linked returns None and changes
\* neither table.
C3_IdempotentPerAnchor ==
    [][(ret'.op = "correlate" /\ images[ret'.image].alert_id # NULL)
          => (ret'.result = NULL /\ alerts' = alerts /\ images' = images)]_vars

\* C4 (as stated): when the match and another uncorrelated alert of the
\* window are equally far from the image, on opposite sides of it, the match
\* is the one created first.
C4_TieTakesEarlierCreated ==
    Matched => \A a \in uncorrelated_alerts(ImageTs) :
                  (Distance(a) = Distance(ret.result)
                     /\ alerts[a].timestamp # alerts[ret.result].timestamp)
                      => ret.result < a

\* C4 (amended): in that tie the match is the alert with the later
\* timestamp, the one after the image, whichever was created first.
C4_TieTakesLaterTimestamp ==
    Matched => \A a \in uncorrelated_alerts(ImageTs) :
                  (Distance(a) = Distance(ret.result)
                     /\ alerts[a].timestamp # alerts[ret.result].timestamp)
                      => /\ alerts[ret.result].timestamp > ImageTs
                         /\ alerts[a].timestamp < ImageTs

C4_Witness ==
    /\ Matched
    /\ \E a \in uncorrelated_alerts(ImageTs) :
          /\ Distance(a) = Distance(ret.result)
          /\ alerts[a].timestamp < ImageTs
          /\ a < ret.result

\* C5: no uncorrelated alert of the window is strictly closer to the image
\* than the alert that was matched.
C5_ClosestChosen ==
    Matched => \A a \in uncorrelated_alerts(ImageTs) :
                  Distance(a) >= Distance(ret.result)

C5_Witness ==
    /\ Matched
    /\ \E a \in uncorrelated_alerts(ImageTs) :
          /\ Distance(a) > Distance(ret.result)
          /\ Distance(a) < CORRELATION_WINDOW_SECONDS

\* C6: an alert's image_id and an image's alert_id, once set, keep their
\* value in every step.
C6_LinksWriteOnce ==
    [][/\ \A a \in AlertIds :
             alerts[a].image_id # NULL
                 => alerts'[a].image_id = alerts[a].image_id
       /\ \A i \in ImageIds :
             images[i].alert_id # NULL
                 => images'[i].alert_id = images[i].alert_id]_vars

\* C7: no two images are linked to the same alert, whatever the interleaving
\* of the uploads.
C7_AlertHasOneImage ==
    \A i, j \in ImageIds :
        (i # j /\ images[i].alert_id # NULL)
            => images[i].alert_id # images[j].alert_id

\* an upload has stored its image while another upload was in progress, and
\* an uncorrelated alert carries the very timestamp of that image
C7_Witness ==
    /\ ret.op = "upload" /\ ret.image # NULL
    /\ \E w \in Workers : upl[w] = "read"
    /\ \E a \in AlertIds :
          /\ ~alerts[a].correlated
          /\ alerts[a].timestamp = images[ret.image].timestamp

(***************************************************************************)
(* Properties of the alert de-duplication                                  *)
(***************************************************************************)
Audited == ret.op = "reading" /\ ret.status = 200
OldRows == 1..ret.rows_before
NewRows == (ret.rows_before + 1)..Len(eLogs)

SameKey(row, device_id, c) ==
    /\ row.device_id = device_id
    /\ row.sensor_number = c.sensor
    /\ row.audit_type = c.type

Persisted(c) == \E k \in NewRows : SameKey(eLogs[k], ret.device_id, c)

NoTwoEnergyLogsInWindow ==
    \A j, k \in 1..Len(eLogs) :
        (j < k /\ SameKey(eLogs[j], eLogs[k].device_id,
                          [sensor |-> eLogs[k].sensor_number,
                           type |-> eLogs[k].audit_type]))
            => Abs(eLogs[k].timestamp - eLogs[j].timestamp)
                   >= DEDUP_WINDOW_SECONDS

NoTwoHealthAlertsInWindow ==
    \A j, k \in 1..Len(hAlerts) :
        (j < k /\ hAlerts[j].device_id = hAlerts[k].device_id
               /\ hAlerts[j].alert_type = hAlerts[k].alert_type)
            => Abs(hAlerts[k].timestamp - hAlerts[j].timestamp)
                   >= DEDUP_WINDOW_SECONDS

\* C8: in the energy audit logs and in the health alerts alike, no two
\* persisted alerts of the same device, sensor or context and type are less
\* than ten minutes apart.
C8_NoDuplicateInWindow ==
    NoTwoEnergyLogsInWindow /\ NoTwoHealthAlertsInWindow

\* C9: a candidate of an audit is persisted, with the time of the audit as
\* its timestamp, exactly when no audit log of the same device, sensor and
\* type is less than ten minutes old at that time.
C9_SlidingWindow ==
    Audited =>
        /\ \A n \in 1..Len(ret.alerts) :
              Persisted(ret.alerts[n])
                  <=> ~\E k \in OldRows :
                         /\ SameKey(eLogs[k], ret.device_id, ret.alerts[n])
                         /\ now - eLogs[k].timestamp < DEDUP_WINDOW_SECONDS
        /\ \A k \in NewRows : eLogs[k].timestamp = now

\* a candidate is persisted whose most recent log of the same key is eleven
\* minutes old
C9_Witness ==
    /\ Audited
    /\ \E n \in 1..Len(ret.alerts) :
          /\ Persisted(ret.alerts[n])
          /\ \E k \in OldRows :
                /\ SameKey(eLogs[k], ret.device_id, ret.alerts[n])
                /\ now - eLogs[k].timestamp = 660

\* C10: a candidate is suppressed only when an older log has the same
\* device, the same sensor number and the same type.
C10_NoCrossKeySuppression ==
    Audited =>
        \A n \in 1..Len(ret.alerts) :
            ~Persisted(ret.alerts[n])
                => \E k \in OldRows :
                      SameKey(eLogs[k], ret.device_id, ret.alerts[n])

\* a candidate is persisted although logs of its type, younger than ten
\* minutes, exist for another device and for the other sensor of its device
C10_Witness ==
    /\ Audited
    /\ \E n \in 1..Len(ret.alerts) :
          /\ Persisted(ret.alerts[n])
          /\ \E k \in OldRows :
                /\ eLogs[k].audit_type = ret.alerts[n].type
                /\ eLogs[k].sensor_number = ret.alerts[n].sensor
                /\ eLogs[k].device_id # ret.device_id
                /\ now - eLogs[k].timestamp < DEDUP_WINDOW_SECONDS
          /\ \E k \in 1..Len(eLogs) :
                /\ eLogs[k].audit_type = ret.alerts[n].type
                /\ eLogs[k].sensor_number < ret.alerts[n].sensor
                /\ eLogs[k].device_id = ret.device_id
                /\ now - eLogs[k].timestamp < DEDUP_WINDOW_SECONDS

(***************************************************************************)
(* Properties of readings processed concurrently                           *)
(***************************************************************************)
\* the logs written by other requests while the last request was waiting
RowsWhileWaiting == (ret.logs_at_start + 1)..ret.rows_before

\* C11: whatever the interleaving of the readings in flight, every key
\* (device_id, sensor, type) a completed audit has raised has at most one
\* audit log younger than ten minutes, and no two logs of one key are less
\* than ten minutes apart.
C11_ConcurrentReadingsDeduplicated ==
    /\ Audited =>
          \A n \in 1..Len(ret.alerts) :
              Cardinality({k \in 1..Len(eLogs) :
                              /\ SameKey(eLogs[k], ret.device_id, ret.alerts[n])
                              /\ now - eLogs[k].timestamp
                                    < DEDUP_WINDOW_SECONDS}) = 1
    /\ NoTwoEnergyLogsInWindow

\* a request that waited while another request of the same device wrote a
\* log of a key it raises too, and that wrote no second log of that key
C11_Witness ==
    /\ Audited
    /\ \E n \in 1..Len(ret.alerts) :
          /\ ~Persisted(ret.alerts[n])
          /\ \E k \in RowsWhileWaiting :
                /\ SameKey(eLogs[k], ret.device_id, ret.alerts[n])
                /\ eLogs[k].timestamp = now

(***************************************************************************)
(* Properties of the vitals analysis and of the threshold table            *)
(***************************************************************************)
Analyzed == ret.op = "vitals"

\* the enabled rows of the analysed device for a threshold type
EnabledRows(type) ==
    {k \in 1..Len(hThresholds) :
        /\ hThresholds[k].device_id = ret.device_id
        /\ hThresholds[k].threshold_type = type
        /\ hThresholds[k].enabled}

\* the limit in force: the stored value when enabled, else the default
Limit(type, default) ==
    IF EnabledRows(type) = {} THEN default
    ELSE hThresholds[CHOOSE k \in EnabledRows(type) : TRUE].threshold_value

Raised(type) == {n \in 1..Len(ret.alerts) : ret.alerts[n].type = type}

\* the alert rows the analysis has stored
StoredByAnalysis(type) ==
    {k \in (ret.rows_before + 1)..Len(hAlerts) :
        hAlerts[k].device_id = ret.device_id /\ hAlerts[k].alert_type = type}

ValidSpO2 == ret.vitals.spo2_valid

\* C12: an analysis raises CRITICAL_HYPOXIA, once and with severity
\* CRITICAL and without LOW_SPO2, exactly when the valid SpO2 value s has
\* 0 < s < SPO2_CRITICAL; so it does for 89 against 90, and 96 against the
\* default limits raises neither CRITICAL_HYPOXIA nor LOW_SPO2.
C12_HypoxiaStrictlyBelowCritical ==
    Analyzed =>
        LET s == ret.vitals.percent
            fires == ValidSpO2 /\ 0 < s /\ s < Limit("SPO2_CRITICAL", 90)
        IN  /\ Cardinality(Raised("CRITICAL_HYPOXIA")) = IF fires THEN 1 ELSE 0
            /\ Cardinality(StoredByAnalysis("CRITICAL_HYPOXIA"))
                  = IF fires THEN 1 ELSE 0
            /\ \A n \in Raised("CRITICAL_HYPOXIA") :
                  ret.alerts[n].severity = "CRITICAL"
            /\ fires => Raised("LOW_SPO2") = {}
            /\ (ValidSpO2 /\ s = 89 /\ Limit("SPO2_CRITICAL", 90) = 90)
                  => Cardinality(Raised("CRITICAL_HYPOXIA")) = 1
            /\ (ValidSpO2 /\ s = 96 /\ Limit("SPO2_CRITICAL", 90) = 90
                   /\ Limit("SPO2_LOW", 95) = 95)
                  => Raised("CRITICAL_HYPOXIA") \cup Raised("LOW_SPO2") = {}

\* a valid SpO2 of 89 analysed against a stored, enabled SPO2_CRITICAL of 90
C12_Witness ==
    /\ Analyzed
    /\ ValidSpO2 /\ ret.vitals.percent = 89
    /\ EnabledRows("SPO2_CRITICAL") # {}
    /\ Limit("SPO2_CRITICAL", 90) = 90
    /\ Cardinality(Raised("CRITICAL_HYPOXIA")) = 1

(***************************************************************************)
(* Properties of the rules of the energy audit                             *)
(***************************************************************************)
Answered == ret.op = "reading"

\* the candidates of a type the audit has returned for a sensor
Yielded(n, type) ==
    {k \in 1..Len(ret.alerts) :
        ret.alerts[k].sensor = n /\ ret.alerts[k].type = type}

SensorOf(n) == ret.latest.sensor[n]
Number(x) == x # NONE

\* C13: for each sensor the audit yields voltage_brownout, with severity
\* danger, exactly when the voltage is below 200, and yields neither
\* voltage_brownout nor voltage_surge for a voltage from 200 to 250,
\* whatever the sensor's wattage.
C13_BrownoutStrictlyBelow200 ==
    Audited =>
        \A n \in {1, 2} :
            /\ Yielded(n, "voltage_brownout") # {}
                  <=> SensorOf(n).voltage < 200
            /\ \A k \in Yielded(n, "voltage_brownout") :
                  ret.alerts[k].severity = "danger"
            /\ (SensorOf(n).voltage >= 200 /\ SensorOf(n).voltage <= 250)
                  => Yielded(n, "voltage_brownout")
                       \cup Yielded(n, "voltage_surge") = {}

\* a sensor at 195 V whose load is off raises the brownout
C13_Witness ==
    /\ Audited
    /\ SensorOf(1).voltage = 195 /\ SensorOf(1).watts = 0
    /\ Yielded(1, "voltage_brownout") # {}
    /\ SensorOf(2).voltage = 230 /\ Yielded(2, "voltage_brownout") = {}

\* C14: for a sensor of category AC the audit yields hvac_inefficient_use,
\* with severity warning, exactly when watts > 200, the indoor temperature
\* is below 21 and the outdoor temperature is below 24; so it does for
\* 250 W at 19 degrees inside and 22 degrees outside.
C14_ACRuleJointCondition ==
    Audited =>
        \A n \in {1, 2} :
            CategoryOf(ret.device_id, n) = "AC" =>
                /\ Yielded(n, "hvac_inefficient_use") # {}
                      <=> /\ SensorOf(n).watts > 200
                          /\ Number(ret.latest.temperature_c)
                          /\ ret.latest.temperature_c < 21
                          /\ Number(ret.latest.outdoor_temp_c)
                          /\ ret.latest.outdoor_temp_c < 24
                /\ \A k \in Yielded(n, "hvac_inefficient_use") :
                      ret.alerts[k].severity = "warning"

\* the alert types of analyze_vitals
RuleAlertTypes ==
    {"CRITICAL_HYPOXIA", "LOW_SPO2", "RESPIRATORY_DISTRESS",
     "INFECTION_PATTERN", "FEVER", "HIGH_TEMP", "TACHYCARDIA", "BRADYCARDIA",
     "TEMP_EST_UNRELIABLE", "HYPOTHERMIA", "SEVERE_INFECTION"}

Missing(type) == EnabledRows(type) = {}
SpO2Used == IF ValidSpO2 THEN ret.vitals.percent ELSE 0

\* C15: a rule whose threshold type the analysis finds no row for is
\* evaluated against the default (HR_HIGH 100, HR_LOW 50, SPO2_LOW 95,
\* SPO2_CRITICAL 90, TEMP_HIGH 38.0, TEMP_LOW 35.5), and every alert of the
\* analysis is an alert of a rule.
C15_MissingThresholdUsesDefault ==
    Analyzed =>
        /\ Missing("SPO2_CRITICAL") =>
              (Raised("CRITICAL_HYPOXIA") # {}
                  <=> (SpO2Used > 0 /\ SpO2Used < 90))
        /\ Missing("SPO2_LOW") =>
              (Raised("LOW_SPO2") # {}
                  <=> /\ Raised("CRITICAL_HYPOXIA") = {}
                      /\ SpO2Used > 0 /\ SpO2Used < 95)
        /\ Missing("TEMP_HIGH") =>
              (Raised("FEVER") \cup Raised("HIGH_TEMP") # {}
                  <=> ret.vitals.celsius > 380)
        /\ Missing("HR_HIGH") =>
              (Raised("TACHYCARDIA") # {} <=> ret.vitals.bpm > 100)
        /\ Missing("HR_LOW") =>
              (Raised("BRADYCARDIA") # {}
                  <=> /\ ret.vitals.bpm < 50 /\ ret.vitals.bpm > 0
                      /\ ~hDevices[ret.device_id].is_athlete)
        /\ Missing("TEMP_LOW") =>
              (Raised("HYPOTHERMIA") # {} <=> ret.vitals.celsius < 355)
        /\ \A n \in 1..Len(ret.alerts) : ret.alerts[n].type \in RuleAlertTypes

\* all six types are missing for the analysis, and the reading lies between
\* three defaults and the values of the rows that are switched off
C15_Witness ==
    /\ Analyzed
    /\ \A k \in 1..Len(DefaultThresholds) :
          Missing(DefaultThresholds[k].type)
    /\ Raised("CRITICAL_HYPOXIA") # {} /\ ret.vitals.percent = 89
    /\ Raised("TACHYCARDIA") # {} /\ ret.vitals.bpm = 110
    /\ Raised("FEVER") # {} /\ ret.vitals.celsius = 385

\* a field of the stored reading is null
HasNull ==
    \/ \E n \in {1, 2} : \/ SensorOf(n).voltage = NONE
                          \/ SensorOf(n).watts = NONE
                          \/ SensorOf(n).amps = NONE
    \/ ret.latest.temperature_c = NONE
    \/ ret.latest.light_lux = NONE

\* C16: an audit of a reading with a null field does not abort, and the
\* rules that do not need the field still yield and persist their alerts:
\* a sensor below 200 V has its voltage_brownout log.
C16_NullFieldSkipsOnlyItsRule ==
    (Answered /\ HasNull) =>
        /\ ret.status = 200
        /\ \A n \in {1, 2} :
              (Number(SensorOf(n).voltage) /\ SensorOf(n).voltage < 200)
                  => /\ Yielded(n, "voltage_brownout") # {}
                     /\ \E k \in 1..Len(eLogs) :
                           /\ eLogs[k].device_id = ret.device_id
                           /\ eLogs[k].sensor_number = n
                           /\ eLogs[k].audit_type = "voltage_brownout"

\* the rows of a device in a threshold table
RowsOf(rows, d) == SelectSeq(rows, LAMBDA row : row.device_id = d)

HasAllDefaultTypes(d) ==
    \A k \in 1..Len(DefaultThresholds) :
        \E j \in 1..Len(hThresholds) :
            /\ hThresholds[j].device_id = d
            /\ hThresholds[j].threshold_type = DefaultThresholds[k].type

\* C17: every registered health device has a threshold row of each of the
\* six default types, and the step that registers a device, by a
\* registration or by its first vitals, leaves it with exactly the six rows
\* of the default values, enabled.
C17_DefaultsSeeded ==
    /\ [](\A d \in DOMAIN hDevices : HasAllDefaultTypes(d))
    /\ [][\A d \in HDeviceIds :
             (d \notin DOMAIN hDevices /\ d \in DOMAIN hDevices')
                 => RowsOf(hThresholds', d) = SeedRows(d)]_vars

\* a device registered by its first vitals has its six rows, next to a
\* device whose critical SpO2 limit has been changed
C17_Witness ==
    /\ Analyzed /\ ret.created
    /\ HasAllDefaultTypes(ret.device_id)
    /\ \E j \in 1..Len(hThresholds) :
          /\ hThresholds[j].device_id # ret.device_id
          /\ hThresholds[j].threshold_type = "SPO2_CRITICAL"
          /\ hThresholds[j].threshold_value = 92

\* the rows of a key (device_id, threshold_type)
RowsOfKey(d, type) ==
    {k \in 1..Len(hThresholds) :
        hThresholds[k].device_id = d /\ hThresholds[k].threshold_type = type}

Updated == ret.op = "thresholds" /\ ret.status = 200

\* the last item of a posted list for the type of its n-th item
LastFor(n) ==
    ret.items[CHOOSE m \in 1..Len(ret.items) :
                /\ ret.items[m].threshold_type = ret.items[n].threshold_type
                /\ \A j \in 1..Len(ret.items) :
                      ret.items[j].threshold_type = ret.items[n].threshold_type
                          => j <= m]

\* C18: no key (device_id, threshold_type) has two threshold rows, and
\* after an update the one row of each posted key holds the value and the
\* enabled flag that were posted last.
C18_OneRowPerKey ==
    /\ \A j, k \in 1..Len(hThresholds) :
          (hThresholds[j].device_id = hThresholds[k].device_id
             /\ hThresholds[j].threshold_type = hThresholds[k].threshold_type)
              => j = k
    /\ Updated =>
          \A n \in 1..Len(ret.items) :
              \A k \in RowsOfKey(ret.device_id, ret.items[n].threshold_type) :
                  /\ hThresholds[k].threshold_value
                        = LastFor(n).threshold_value
                  /\ hThresholds[k].enabled = LastFor(n).enabled

\* a device is registered again after its critical SpO2 limit was replaced
\* and a row of a new type was added
C18_Witness ==
    /\ ret.op = "register"
    /\ \E k \in RowsOfKey(ret.device_id, "SPO2_CRITICAL") :
          hThresholds[k].threshold_value # 90
    /\ RowsOfKey(ret.device_id, "HR_CRITICAL") # {}

(***************************************************************************)
(* Properties of the notification of alerts                                *)
(***************************************************************************)
\* C19: a receive_alert call whose alert was committed answers with the
\* success response and the id of the alert, and the alert is in the table,
\* whether the Telegram send succeeds, returns failure or raises; and no
\* step removes an alert.
C19_NotificationNeverGates ==
    /\ [](ret.op = "alert" /\ ret.committed
            => /\ ret.status = 200
               /\ ret.alert_id = Len(alerts)
               /\ alerts[ret.alert_id].timestamp = ret.timestamp)
    /\ [][/\ Len(alerts') >= Len(alerts)
          /\ \A a \in AlertIds :
                alerts'[a].timestamp = alerts[a].timestamp]_vars

\* the second alert was committed and answered with success although its
\* send returned failure
C19_Witness ==
    /\ ret.op = "alert" /\ ret.committed /\ ret.notify = "failed"
    /\ ret.status = 200 /\ ret.alert_id = 2
    /\ Len(alerts) = 2

(***************************************************************************)
(* Properties of the storage of health alerts                              *)
(***************************************************************************)
\* C20: when the storage of an alert of an analysis fails and the call
\* reports the failure, no alert of that analysis is in the table.
C20_AlertsAllOrNothing ==
    (ret.op = "vitals" /\ ret.status = 500)
        => Len(hAlerts) = ret.rows_before

(***************************************************************************)
(* Properties of the ingestion of images                                   *)
(***************************************************************************)
\* the uncorrelated alerts fewer than 5 s away from the instant t
NearUncorrelated(t) ==
    {a \in AlertIds : ~alerts[a].correlated /\ Abs(alerts[a].timestamp - t) < 5}

\* C21: an upload_image call that stores its image while one alert, received
\* fewer than 5 s before, is the only uncorrelated alert near the image,
\* answers with that alert as the match, and leaves the alert correlated
\* and linked to the image.
C21_UploadCorrelatesEndToEnd ==
    [][(ret'.op = "upload" /\ ret'.image # NULL /\ Len(images') > Len(images))
         => \A a \in AlertIds :
               (NearUncorrelated(now) = {a} /\ alerts[a].timestamp < now)
                  => /\ ret'.result = a
                     /\ alerts'[a].correlated
                     /\ alerts'[a].image_id = ret'.image
                     /\ images'[ret'.image].alert_id = a]_vars

\* C22: while a Telegram send has not returned, the next alert can be
\* ingested, and the device whose alert is being sent is answered without
\* waiting for the send.
C22_DispatchDecoupled ==
    /\ (tgSend.pc = "sending" /\ Len(alerts) < MaxAlerts)
          => ENABLED (\E ts \in AlertTimes : AlertCommit(ts))
    /\ (ret.op = "alert" /\ ret.notify \in SendOutcomes) => ret.waited = 0

(***************************************************************************)
(* Properties of the waste bins                                            *)
(***************************************************************************)
\* the "full" events of the bin b in the table e
FullEvents(e, b) ==
    {k \in 1..Len(e) : e[k].bin_id = b /\ e[k].event_type = "full"}

\* C23: an update_bins call that succeeds and reports full a bin whose row
\* exists and is stored as not full adds a "full" event of that bin.
C23_FullTransitionLogged ==
    [][(ret'.op = "update_bins" /\ ret'.status = 200)
         => \A k \in 1..2 :
               (/\ ret'.ids[1] # ret'.ids[2]
                /\ bins[ret'.ids[k]] # NoBin
                /\ ~bins[ret'.ids[k]].full
                /\ ret'.full[k])
                  => Cardinality(FullEvents(binEvents', ret'.ids[k]))
                        > Cardinality(FullEvents(binEvents, ret'.ids[k]))]_vars

(***************************************************************************)
(* Properties of the Telegram configuration                                *)
(***************************************************************************)
\* C24: a save_telegram_config call whose token is the masked form of the
\* stored token, as get_telegram_config returns it, leaves the stored token
\* as it was.
C24_MaskedTokenNeverStored ==
    [][(/\ ret'.op = "save_config"
        /\ tgConfig.present
        /\ ret'.bot_token = mask_token(tgConfig.bot_token))
         => tgConfig'.bot_token = tgConfig.bot_token]_vars

(***************************************************************************)
(* Properties of the state commands                                        *)
(***************************************************************************)
\* C25: a command accepted for a device is the last of its queue; a poll
\* of a device with queued commands returns the last of them and empties
\* the queue; a poll that follows a poll of the same device returns
\* nothing; and a call for one device leaves the queues of the others as
\* they were.
C25_PollReturnsLatestAndClears ==
    /\ []((ret.op = "set_state" /\ ret.status = 200)
            => /\ Len(QueueOf(ret.device_id)) > 0
               /\ QueueOf(ret.device_id)[Len(QueueOf(ret.device_id))]
                     = ret.state)
    /\ [][/\ (ret'.op = "pending" /\ Len(QueueOf(ret'.device_id)) > 0)
              => /\ ret'.has_pending
                 /\ ret'.state = QueueOf(ret'.device_id)[
                                     Len(QueueOf(ret'.device_id))]
                 /\ pending_state_commands'[ret'.device_id] = <<>>
          /\ (ret.op = "pending" /\ ret'.op = "pending"
                 /\ ret'.device_id = ret.device_id)
              => ~ret'.has_pending
          /\ ret'.op \in {"pending", "set_state"}
              => \A d \in DOMAIN pending_state_commands \ {ret'.device_id} :
                    pending_state_commands'[d] = pending_state_commands[d]]_vars

\* a poll has returned "paused", the last of two commands of its device,
\* and emptied its queue while the other device keeps its command
C25_Witness ==
    /\ ret.op = "pending" /\ ret.has_pending
    /\ ret.queued = 2 /\ ret.state = "paused"
    /\ QueueOf(ret.device_id) = <<>>
    /\ \E d \in HDeviceIds \ {ret.device_id} : Len(QueueOf(d)) = 1

(***************************************************************************)
(* Properties of the weather cache                                         *)
(***************************************************************************)
\* C26: a reading that finds a cached temperature younger than 900 s is
\* stored with it, without a fetch; a reading that finds an older cached
\* temperature and whose fetch raises or answers with another status than
\* 200 is stored with the cached temperature.
C26_CacheBacksFailedLookup ==
    [][(ret'.op = "reading" /\ eReadingCount' > eReadingCount
          /\ weather_cache.data # NONE)
         => /\ CacheFresh
                => /\ ret'.fetch = "cached"
                   /\ ret'.latest.outdoor_temp_c = weather_cache.data
                   /\ weather_cache' = weather_cache
            /\ (~CacheFresh /\ ret'.fetch \in {"fail", "raise"})
                => ret'.latest.outdoor_temp_c = weather_cache.data]_vars

(***************************************************************************)
(* Properties of clear_device_data                                         *)
(***************************************************************************)
\* the alert rows of the device d in the table rows, in their order
AlertsOf(rows, d) == SelectSeq(rows, LAMBDA row : row.device_id = d)

\* C27: clear_device_data for a registered device leaves no reading and no
\* alert of that device, and leaves the devices, the thresholds and the
\* readings and alerts of every other device as they were; for an unknown
\* device it answers 404 and leaves every table as it was.
C27_ClearTouchesOnlyDeviceData ==
    [][ret'.op = "clear"
         => LET d == ret'.device_id
            IN  /\ hDevices' = hDevices
                /\ hThresholds' = hThresholds
                /\ \A e \in HDeviceIds \ {d} :
                      /\ hVitals'[e] = hVitals[e]
                      /\ AlertsOf(hAlerts', e) = AlertsOf(hAlerts, e)
                /\ IF d \in DOMAIN hDevices
                   THEN /\ ret'.status = 200
                        /\ hVitals'[d] = 0
                        /\ AlertsOf(hAlerts', d) = <<>>
                   ELSE /\ ret'.status = 404
                        /\ hVitals' = hVitals
                        /\ hAlerts' = hAlerts]_vars

\* a clear has deleted a reading and its alerts of one device while the
\* other device keeps a reading and an alert
C27_Witness ==
    /\ ret.op = "clear" /\ ret.status = 200
    /\ ret.vitals_deleted = 1 /\ ret.alerts_deleted > 0
    /\ \E e \in HDeviceIds \ {ret.device_id} :
          hVitals[e] = 1 /\ Len(AlertsOf(hAlerts, e)) > 0

StoredRows(type) ==
    {k \in 1..Len(hThresholds) :
        /\ hThresholds[k].device_id = ret.device_id
        /\ hThresholds[k].threshold_type = type}

\* the device has a row of the type, and every such row has enabled = false
SwitchedOff(type) == StoredRows(type) # {} /\ EnabledRows(type) = {}

\* C29: for a device whose threshold row of a type is switched off, the
\* analysis stores the alert of the rule exactly when the reading crosses
\* the default value of that type, whatever value the row holds.
C29_DisabledThresholdStillFires ==
    (Analyzed /\ ret.status = 200) =>
        /\ SwitchedOff("SPO2_CRITICAL") =>
              (StoredByAnalysis("CRITICAL_HYPOXIA") # {}
                  <=> (SpO2Used > 0 /\ SpO2Used < 90))
        /\ SwitchedOff("SPO2_LOW") =>
              (StoredByAnalysis("LOW_SPO2") # {}
                  <=> /\ StoredByAnalysis("CRITICAL_HYPOXIA") = {}
                      /\ SpO2Used > 0 /\ SpO2Used < 95)
        /\ SwitchedOff("HR_HIGH") =>
              (StoredByAnalysis("TACHYCARDIA") # {} <=> ret.vitals.bpm > 100)
        /\ SwitchedOff("HR_LOW") =>
              (StoredByAnalysis("BRADYCARDIA") # {}
                  <=> /\ ret.vitals.bpm < 50 /\ ret.vitals.bpm > 0
                      /\ ~hDevices[ret.device_id].is_athlete)
        /\ SwitchedOff("TEMP_HIGH") =>
              (StoredByAnalysis("FEVER") \cup StoredByAnalysis("HIGH_TEMP") # {}
                  <=> ret.vitals.celsius > 380)
        /\ SwitchedOff("TEMP_LOW") =>
              (StoredByAnalysis("HYPOTHERMIA") # {}
                  <=> ret.vitals.celsius < 355)

\* the SPO2_CRITICAL row alone is switched off and holds 85, and a reading
\* of 89 has stored CRITICAL_HYPOXIA
C29_Witness ==
    /\ Analyzed /\ ret.status = 200
    /\ SwitchedOff("SPO2_CRITICAL") /\ ~SwitchedOff("SPO2_LOW")
    /\ \A k \in StoredRows("SPO2_CRITICAL") :
          hThresholds[k].threshold_value = 85
    /\ ret.vitals.percent = 89
    /\ StoredByAnalysis("CRITICAL_HYPOXIA") # {}

(***************************************************************************)
(* Properties of the result of the audit                                   *)
(***************************************************************************)
\* "alerts_generated": len(alerts)
AlertsGenerated == Len(ret.alerts)

\* C30: the list an audit returns holds the voltage_brownout candidate of
\* every sensor below 200 V whether or not a log is written for it, every
\* log the call adds is of a candidate of the list, and the count reported
\* is at least the number of logs added.
C30_CountIncludesSuppressed ==
    Audited =>
        /\ \A n \in {1, 2} :
              (Number(SensorOf(n).voltage) /\ SensorOf(n).voltage < 200)
                  => Yielded(n, "voltage_brownout") # {}
        /\ \A k \in NewRows :
              \E m \in 1..Len(ret.alerts) :
                  SameKey(eLogs[k], ret.device_id, ret.alerts[m])
        /\ AlertsGenerated >= Cardinality(NewRows)

\* an audit has reported two alerts and added no log: both candidates were
\* suppressed by logs less than ten minutes old
C30_Witness ==
    /\ Audited
    /\ AlertsGenerated = 2 /\ NewRows = {}
    /\ \A m \in 1..Len(ret.alerts) :
          /\ ~Persisted(ret.alerts[m])
          /\ \E k \in OldRows :
                /\ SameKey(eLogs[k], ret.device_id, ret.alerts[m])
                /\ now - eLogs[k].timestamp < DEDUP_WINDOW_SECONDS

====
